---- MODULE Spec2Model ----
(***************************************************************************)
(* Model of src/src/calculations_average_obs.py: the centrality binner,    *)
(* the per-observable aggregators and the design-point driver              *)
(* (load_and_compute_single_design and the __main__ batch loop).           *)
(***************************************************************************)
EXTENDS Integers, Sequences, FiniteSets, TLC

(***************************************************************************)
(* IEEE-754 binary64 arithmetic, as far as the binner uses it:             *)
(*     index = (cen/100.*Ne).astype(int)                                   *)
(* cen is an integer percentile (0..100) and Ne an integer (below 2^13).   *)
(* A float >= 0 is a record [q1, q2, q3, t] of value                       *)
(*     (q1 * Limb^2 + q2 * Limb + q3) * 2^(-t),                            *)
(* its significand held in three limbs so that every product stays inside  *)
(* TLC's integers.  Rounding is to nearest, ties to even.                  *)
(***************************************************************************)
MantissaBits == 53
LimbBits == MantissaBits \div 3 + 1
Limb == 2 ^ LimbBits
FloatZero == [q1 |-> 0, q2 |-> 0, q3 |-> 0, t |-> 0]

\* the limbs with the carries of q3 and q2 taken up
Carry(q1, q2, q3, t) ==
    LET c3 == q3 \div Limb
        c2 == (q2 + c3) \div Limb
    IN  [q1 |-> q1 + c2, q2 |-> (q2 + c3) % Limb, q3 |-> q3 % Limb, t |-> t]

\* the number of bits of n >= 1
BitLen(n) == CHOOSE b \in 1..30 : 2 ^ (b - 1) <= n /\ (b = 30 \/ n < 2 ^ b)

\* cen/100. : the float nearest to c/100, by long division, a limb at a time
FloatDiv100(c) ==
    IF c = 0 THEN FloatZero
    ELSE LET s  == CHOOSE s \in 0..7 : 100 <= c * 2 ^ s /\ c * 2 ^ s < 200
             t  == MantissaBits - 1 + s
             n1 == c * 2 ^ (t - 2 * LimbBits)
             n2 == (n1 % 100) * Limb
             n3 == (n2 % 100) * Limb
             r  == n3 % 100
             up == 2 * r > 100 \/ (2 * r = 100 /\ (n3 \div 100) % 2 = 1)
         IN  Carry(n1 \div 100, n2 \div 100,
                   (n3 \div 100) + (IF up THEN 1 ELSE 0), t)

\* f * Ne : the float nearest to the product of a float and an integer
FloatMulInt(f, Ne) ==
    IF f = FloatZero \/ Ne = 0 THEN FloatZero
    ELSE LET t3  == f.q3 * Ne
             t2  == f.q2 * Ne + t3 \div Limb
             p1  == f.q1 * Ne + t2 \div Limb
             p2  == t2 % Limb
             p3  == t3 % Limb
             \* the bits of the product beyond the significand
             d   == BitLen(p1) + 2 * LimbBits - MantissaBits
             low == p3 % 2 ^ d
             odd == IF d < LimbBits THEN (p3 \div 2 ^ d) % 2 = 1 ELSE p2 % 2 = 1
             up  == 2 * low > 2 ^ d \/ (2 * low = 2 ^ d /\ odd)
         IN  IF d <= 0 THEN [q1 |-> p1, q2 |-> p2, q3 |-> p3, t |-> f.t]
             ELSE Carry(p1, p2, p3 - low + (IF up THEN 2 ^ d ELSE 0), f.t)

\* astype(int): truncation toward zero of a float >= 0
AsTypeInt(f) == IF f = FloatZero THEN 0 ELSE f.q1 \div 2 ^ (f.t - 2 * LimbBits)

\* one element of index = (cen/100.*Ne).astype(int)
CenIndex(c, Ne) == AsTypeInt(FloatMulInt(FloatDiv100(c), Ne))

(***************************************************************************)
(* Numbers written to the output record.  Event fields are small integers, *)
(* so means are exact rationals; a standard error is kept by the two       *)
(* integers that determine it.                                             *)
(*   [k |-> "num", v |-> <<a, b>>]   the rational a/b, reduced, b > 0      *)
(*   [k |-> "nan", v |-> <<>>]       NaN                                   *)
(*   [k |-> "err", v |-> <<S, n>>]   sqrt(S / (n^2 * (n - 1 + 1e-9))),     *)
(*                                   S = n*sum(x^2) - sum(x)^2 > 0         *)
(***************************************************************************)
Max(a, b) == IF a >= b THEN a ELSE b
Min(a, b) == IF a <= b THEN a ELSE b
Abs(a) == IF a < 0 THEN 0 - a ELSE a

RECURSIVE Gcd(_, _)
Gcd(a, b) == IF b = 0 THEN a ELSE Gcd(b, a % b)

Num(a, b) ==
    LET g == Gcd(Abs(a), b) IN [k |-> "num", v |-> <<a \div g, b \div g>>]
Zero == Num(0, 1)
NaN == [k |-> "nan", v |-> <<>>]

RECURSIVE Sum(_)
Sum(x) == IF x = <<>> THEN 0 ELSE x[1] + Sum(Tail(x))

Squares(x) == [i \in 1..Len(x) |-> x[i] * x[i]]

\* weighted_mean_std(x) with w = None
weighted_mean_std(x) ==
    LET n == Len(x)
        S == n * Sum(Squares(x)) - Sum(x) * Sum(x)
    IN  IF n = 0 THEN [mean |-> NaN, std |-> NaN]
        ELSE [mean |-> Num(Sum(x), n),
              std  |-> IF S = 0 THEN Zero ELSE [k |-> "err", v |-> <<S, n>>]]

(***************************************************************************)
(* Configuration and event data.                                           *)
(***************************************************************************)
number_of_models_per_run == 4
Idfs == 0..(number_of_models_per_run - 1)
\* for idf in [0,3]
IdfLoop == <<0, 3>>

Species == {"pion", "kaon", "proton", "Lambda", "Sigma0", "Xi", "Omega", "phi"}
SpeciesRank(s) ==
    CASE s = "pion" -> 1 [] s = "kaon" -> 2 [] s = "proton" -> 3
      [] s = "Lambda" -> 4 [] s = "Sigma0" -> 5 [] s = "Xi" -> 6
      [] s = "Omega" -> 7 [] s = "phi" -> 8

\* the observables the driver requests, in the order it requests them
Requests ==
    << [kind |-> "dNdeta",   obs |-> "dNch_deta",      s |-> "",       n |-> 0],
       [kind |-> "dETdeta",  obs |-> "dET_deta",       s |-> "",       n |-> 0],
       [kind |-> "dNdy",     obs |-> "dN_dy_pion",     s |-> "pion",   n |-> 0],
       [kind |-> "dNdy",     obs |-> "dN_dy_kaon",     s |-> "kaon",   n |-> 0],
       [kind |-> "dNdy",     obs |-> "dN_dy_proton",   s |-> "proton", n |-> 0],
       [kind |-> "dNdy",     obs |-> "dN_dy_Lambda",   s |-> "Lambda", n |-> 0],
       [kind |-> "dNdy",     obs |-> "dN_dy_Omega",    s |-> "Omega",  n |-> 0],
       [kind |-> "dNdy",     obs |-> "dN_dy_Xi",       s |-> "Xi",     n |-> 0],
       [kind |-> "mean_pT",  obs |-> "mean_pT_pion",   s |-> "pion",   n |-> 0],
       [kind |-> "mean_pT",  obs |-> "mean_pT_kaon",   s |-> "kaon",   n |-> 0],
       [kind |-> "mean_pT",  obs |-> "mean_pT_proton", s |-> "proton", n |-> 0],
       [kind |-> "pT_fluct", obs |-> "pT_fluct",       s |-> "",       n |-> 0],
       [kind |-> "vn",       obs |-> "v22",            s |-> "",       n |-> 2],
       [kind |-> "vn",       obs |-> "v32",            s |-> "",       n |-> 3],
       [kind |-> "vn",       obs |-> "v42",            s |-> "",       n |-> 4] >>
ObsNames == {Requests[i].obs : i \in 1..Len(Requests)}

\* The kinds of simulated event: two with particles, whose multiplicity
\* order differs between the model variants, one ("c") with two particles
\* inside the pT window of pT_fluct_chg of which one is inside that of flow,
\* and one without any particle.
EventTypes == {"a", "b", "c", "z"}
dNch_deta(ev, idf) ==
    CASE ev = "a" -> <<3, 2, 2, 1>>[idf + 1]
      [] ev = "b" -> <<1, 2, 3, 3>>[idf + 1]
      [] ev = "c" -> <<2, 1, 1, 2>>[idf + 1]
      [] ev = "z" -> 0
dET_deta(ev, idf) == IF ev = "z" THEN 0 ELSE 2 * dNch_deta(ev, idf) + 1
dN_dy(ev, idf, s) ==
    IF ev = "z" THEN 0 ELSE dNch_deta(ev, idf) + SpeciesRank(s)
mean_pT(ev, idf, s) ==
    CASE ev = "a" -> SpeciesRank(s) + idf
      [] ev = "b" -> SpeciesRank(s) + idf + 1
      [] ev = "c" -> SpeciesRank(s) + idf + 2
      [] ev = "z" -> 0
\* pT_fluct_chg: N, sum_pT, sum_pT2
pT_fluct_chg(ev, idf) ==
    CASE ev = "a" -> [N |-> 2, sum_pT |-> 2, sum_pT2 |-> 2]
      [] ev = "b" -> [N |-> 3, sum_pT |-> 6, sum_pT2 |-> 12]
      [] ev = "c" -> [N |-> 2, sum_pT |-> 2, sum_pT2 |-> 2]
      [] ev = "z" -> [N |-> 0, sum_pT |-> 0, sum_pT2 |-> 0]
\* flow: N and |Qn|^2 of harmonic column n
flow(ev, idf, n) ==
    CASE ev = "a" -> [N |-> 2, absQn2 |-> 3 + (n % 2)]
      [] ev = "b" -> [N |-> 3, absQn2 |-> 5 + (n % 2)]
      [] ev = "c" -> [N |-> 1, absQn2 |-> 1]
      [] ev = "z" -> [N |-> 0, absQn2 |-> 0]


(***************************************************************************)
(* The aggregators.  ds is the sorted ensemble: a sequence of loaded       *)
(* files, each [ev, nrec] (the event and the number of records, one per    *)
(* model variant, the file held).  Each returns [raise, obs, err]; raise   *)
(* is "none" or the exception raised.                                      *)
(***************************************************************************)
\* index = (cen/100.*Ne).astype(int), one row per bin
RECURSIVE index(_, _)
index(cen, Ne) ==
    IF cen = <<>> THEN <<>>
    ELSE << <<CenIndex(cen[1][1], Ne), CenIndex(cen[1][2], Ne)>> >>
         \o index(Tail(cen), Ne)

\* the upper index left as computed
Unwidened(nl, nh) == nh

\* nh = np.max([nh, nl+1])
Widen(nl, nh) == Max(nh, nl + 1)

\* ds[nl:nh]
Slice(ds, nl, nh) == SubSeq(ds, Min(nl, Len(ds)) + 1, Min(nh, Len(ds)))

Column(ds, f(_)) == [i \in 1..Len(ds) |-> f(ds[i].ev)]

\* np.array(sorted([])) is a float array without fields: ds[exp] raises
NoFields(ds) == IF ds = <<>> THEN "IndexError" ELSE "none"

calculate_dNdeta(ds, cen, idf) ==
    LET ix == index(cen, Len(ds))
        f(ev) == dNch_deta(ev, idf)
        r(i) == weighted_mean_std(
                    Column(Slice(ds, ix[i][1], Widen(ix[i][1], ix[i][2])), f))
    IN  [raise |-> NoFields(ds),
         obs |-> [i \in 1..Len(cen) |-> r(i).mean],
         err |-> [i \in 1..Len(cen) |-> r(i).std]]

calculate_dETdeta(ds, cen, idf) ==
    LET ix == index(cen, Len(ds))
        f(ev) == dET_deta(ev, idf)
        r(i) == weighted_mean_std(Column(Slice(ds, ix[i][1], ix[i][2]), f))
    IN  [raise |-> NoFields(ds),
         obs |-> [i \in 1..Len(cen) |-> r(i).mean],
         err |-> [i \in 1..Len(cen) |-> r(i).std]]

\* obs and err are per species
calculate_dNdy(ds, cen, idf) ==
    LET ix == index(cen, Len(ds))
        r(s, i) == LET f(ev) == dN_dy(ev, idf, s)
                   IN  weighted_mean_std(Column(Slice(ds, ix[i][1], ix[i][2]), f))
    IN  [raise |-> NoFields(ds),
         obs |-> [s \in Species |-> [i \in 1..Len(cen) |-> r(s, i).mean]],
         err |-> [s \in Species |-> [i \in 1..Len(cen) |-> r(s, i).std]]]

calculate_mean_pT(ds, cen, idf) ==
    LET ix == index(cen, Len(ds))
        r(s, i) == LET f(ev) == mean_pT(ev, idf, s)
                   IN  weighted_mean_std(Column(Slice(ds, ix[i][1], ix[i][2]), f))
    IN  [raise |-> NoFields(ds),
         obs |-> [s \in Species |-> [i \in 1..Len(cen) |-> r(s, i).mean]],
         err |-> [s \in Species |-> [i \in 1..Len(cen) |-> r(s, i).std]]]


\* a float that is NaN or +-inf (a division by zero whose numerator's sign
\* is decided by rounding)
NonFinite == [k |-> "nonfinite", v |-> <<>>]

\* one bin of calculate_mean_pT_fluct: x the pT_fluct_chg records of the slice
mean_pT_fluct_bin(x) ==
    LET n     == Len(x)
        pairs == [i \in 1..n |-> x[i].N * (x[i].N - 1)]
        Nt    == Sum([i \in 1..n |-> x[i].N])
        S     == Sum([i \in 1..n |-> x[i].sum_pT])
        \* meanC = A / B
        A     == Sum([i \in 1..n |->
                    (x[i].sum_pT * x[i].sum_pT - x[i].sum_pT2) * Nt * Nt
                    - 2 * S * Nt * (x[i].N - 1) * x[i].sum_pT
                    + S * S * pairs[i]])
        B     == Nt * Nt * Sum(pairs)
        flat  == [i \in 1..(3 * n) |->
                    LET e == x[((i - 1) \div 3) + 1] IN
                    CASE i % 3 = 1 -> e.N [] i % 3 = 2 -> e.sum_pT
                      [] i % 3 = 0 -> e.sum_pT2]
    IN  \* np.average(x, weights=Npairs): "Weights sum to zero"
        IF Sum(pairs) = 0 THEN [raise |-> "ZeroDivisionError", obs |-> NaN, err |-> NaN]
        ELSE IF \E i \in 1..n : pairs[i] = 0
            THEN [raise |-> "none", obs |-> NaN, err |-> NaN]
        ELSE IF S = 0 THEN [raise |-> "none", obs |-> NonFinite, err |-> NonFinite]
        ELSE IF A < 0 THEN [raise |-> "none", obs |-> NaN, err |-> NaN]
        ELSE IF A = 0 THEN [raise |-> "none", obs |-> Zero, err |-> NonFinite]
        ELSE [raise |-> "none",
              obs |-> [k |-> "pT_fluct", v |-> Num(A, B).v \o <<S, Nt>>],
              err |-> [k |-> "pT_fluct_err", v |-> flat]]

calculate_mean_pT_fluct(ds, cen, idf) ==
    LET ix == index(cen, Len(ds))
        f(ev) == pT_fluct_chg(ev, idf)
        r(i) == mean_pT_fluct_bin(Column(Slice(ds, ix[i][1], ix[i][2]), f))
    IN  [raise |-> IF ds = <<>> THEN NoFields(ds)
                   ELSE IF \E i \in 1..Len(cen) : r(i).raise # "none"
                        THEN "ZeroDivisionError" ELSE "none",
         obs |-> [i \in 1..Len(cen) |-> r(i).obs],
         err |-> [i \in 1..Len(cen) |-> r(i).err]]

\* obs_and_err without the test of w.sum() == 0.
obs_and_err_unguarded(x) ==
    LET n == Len(x)
        w == [i \in 1..n |-> x[i].N * (x[i].N - 1)]
        A == Sum([i \in 1..n |-> x[i].absQn2 - x[i].N])
        flat == [i \in 1..(2 * n) |->
                    LET e == x[((i - 1) \div 2) + 1] IN
                    IF i % 2 = 1 THEN e.N ELSE e.absQn2]
    IN  IF n = 0 \/ \E i \in 1..n : w[i] = 0 THEN [vn |-> NaN, vn_err |-> NaN]
        ELSE IF A < 0 THEN [vn |-> NaN, vn_err |-> NaN]
        ELSE IF A = 0 THEN [vn |-> Zero, vn_err |-> NonFinite]
        ELSE [vn |-> [k |-> "sqrt", v |-> Num(A, Sum(w)).v],
              vn_err |-> [k |-> "vn_err", v |-> flat]]

\* obs_and_err(qn, m) of calculate_vn: x the flow records of the slice
obs_and_err(x) ==
    LET n == Len(x)
        w == [i \in 1..n |-> x[i].N * (x[i].N - 1)]
        \* avg_cn2 = A / B
        A == Sum([i \in 1..n |-> x[i].absQn2 - x[i].N])
        B == Sum(w)
        flat == [i \in 1..(2 * n) |->
                    LET e == x[((i - 1) \div 2) + 1] IN
                    IF i % 2 = 1 THEN e.N ELSE e.absQn2]
    IN  IF Sum(w) = 0 THEN [vn |-> Zero, vn_err |-> Zero]
        ELSE IF \E i \in 1..n : w[i] = 0 THEN [vn |-> NaN, vn_err |-> NaN]
        ELSE IF A < 0 THEN [vn |-> NaN, vn_err |-> NaN]
        ELSE IF A = 0 THEN [vn |-> Zero, vn_err |-> NonFinite]
        ELSE [vn |-> [k |-> "sqrt", v |-> Num(A, B).v],
              vn_err |-> [k |-> "vn_err", v |-> flat]]

\* obs and err are per harmonic column n
Nharmonic == 8
calculate_vn(ds, cen, idf) ==
    LET ix == index(cen, Len(ds))
        r(n, i) == LET f(ev) == flow(ev, idf, n)
                   IN  obs_and_err(Column(Slice(ds, ix[i][1], ix[i][2]), f))
    IN  [raise |-> NoFields(ds),
         obs |-> [n \in 0..(Nharmonic - 1) |-> [i \in 1..Len(cen) |-> r(n, i).vn]],
         err |-> [n \in 0..(Nharmonic - 1) |-> [i \in 1..Len(cen) |-> r(n, i).vn_err]]]


(***************************************************************************)
(* The design-point driver.                                                *)
(***************************************************************************)
\* n_design_pts_main and number_of_events_per_design
NumDesign == 2
NumEvents == 2

\* What np.fromfile finds at '{inputfile}/{k}.dat': no file, a file that
\* cannot be read, or a file of nrec whole records (a piece of a record at
\* the end of a truncated file is dropped by np.fromfile).
FileStates ==
    { [st |-> "missing", nrec |-> 0, ev |-> "z"],
      [st |-> "unreadable", nrec |-> 0, ev |-> "z"],
      [st |-> "ok", nrec |-> 0, ev |-> "z"] }
    \cup [st : {"ok"}, nrec : 1..number_of_models_per_run, ev : EventTypes]

\* the schedules, and the requested observable (if any) without one
FullSchedule == << <<0, 100>> >>
HalfSchedule == << <<0, 50>>, <<50, 100>> >>
Schedules == {FullSchedule, HalfSchedule}

\* the configurations: every requested observable scheduled, or all but one
Configurations ==
    { [o \in ObsNames |-> c] : c \in Schedules }
    \cup { [o \in ObsNames \ {m} |-> HalfSchedule] : m \in ObsNames }

VARIABLES
    obs_cent_list,  \* obs_cent_list[system]: observable -> schedule
    pc,             \* "main", "load", "sort", "agg", "return", "done", "crashed"
    design,         \* the design point of the batch loop
    seen,           \* the files of the design point read so far
    res_unsort,     \* the files loaded, each [ev, nrec]
    idfpos,         \* the position in IdfLoop
    res,            \* the sorted ensemble
    step,           \* the next request of Requests
    entry,          \* the output record of the design point
    lastcall,       \* the arguments of the last aggregator call
    visited,        \* the model variants aggregated for the design point
    results,        \* the output collection
    f_obs_main,     \* the output file: <<>> until results.tofile
    raised,         \* the uncaught exception, or "none"
    bpc, bNe, bcen, bindex, bwide, bcount   \* the binner on its own

dvars == <<obs_cent_list, pc, design, seen, res_unsort, idfpos, res, step, entry,
           lastcall, visited, results, f_obs_main, raised>>
bvars == <<bpc, bNe, bcen, bindex, bwide, bcount>>
vars == <<dvars, bvars>>

\* np.zeros(1, dtype=np.dtype(bayes_dtype))
bayes_zeros ==
    [o \in DOMAIN obs_cent_list |->
        [mean |-> [idf \in Idfs |-> [b \in 1..Len(obs_cent_list[o]) |-> Zero]],
         err  |-> [idf \in Idfs |-> [b \in 1..Len(obs_cent_list[o]) |-> Zero]]]]

NoCall == [ds |-> <<>>, idf |-> 0 - 1]

BinIdle ==
    /\ bpc = "idle" /\ bNe = 0 /\ bcen = <<0, 0>> /\ bindex = <<0, 0>>
    /\ bwide = <<0, 0>> /\ bcount = 0

Init ==
    /\ obs_cent_list \in Configurations
    /\ pc = "main" /\ design = 0
    /\ seen = <<>> /\ res_unsort = <<>> /\ idfpos = 1 /\ res = <<>> /\ step = 1
    /\ entry = bayes_zeros /\ lastcall = NoCall /\ visited = {}
    /\ results = <<>> /\ f_obs_main = <<>> /\ raised = "none"
    /\ BinIdle

\* for i in range(n_design_pts_main): load_and_compute_single_design(...)
StartDesign ==
    /\ pc = "main" /\ design < NumDesign
    /\ pc' = "load"
    /\ entry' = bayes_zeros
    /\ seen' = <<>> /\ res_unsort' = <<>>
    /\ idfpos' = 1 /\ res' = <<>> /\ step' = 1
    /\ lastcall' = NoCall /\ visited' = {}
    /\ UNCHANGED <<obs_cent_list, design, results, f_obs_main, raised, bvars>>

\* one turn of the loop over the event files
LoadFile ==
    /\ pc = "load"
    /\ \E file \in FileStates :
        /\ seen' = Append(seen, file)
        /\ res_unsort' =
              IF file.st = "ok" /\ file.nrec # 0
              THEN Append(res_unsort, [ev |-> file.ev, nrec |-> file.nrec])
              ELSE res_unsort
    /\ pc' = IF Len(seen) + 1 = NumEvents THEN "sort" ELSE "load"
    /\ UNCHANGED <<obs_cent_list, design, idfpos, res, step, entry, lastcall,
                   visited, results, f_obs_main, raised, bvars>>

\* the key of the first model variant, whatever idf
sorted_key_first(x, idf) == dNch_deta(x.ev, 0)

\* key=lambda x: x['ALICE'][idf]['dNch_deta']
sorted_key(x, idf) == dNch_deta(x.ev, idf)

\* sorted(seq, key=...): stable, ascending
sorted_ascending(seq, idf) ==
    LET n == Len(seq)
        before(a, b) ==
            \/ dNch_deta(seq[a].ev, idf) < dNch_deta(seq[b].ev, idf)
            \/ dNch_deta(seq[a].ev, idf) = dNch_deta(seq[b].ev, idf) /\ a < b
        place(a) == 1 + Cardinality({b \in 1..n : before(b, a)})
    IN  [p \in 1..n |-> seq[CHOOSE a \in 1..n : place(a) = p]]

\* sorted(seq, key=..., reverse=True): stable, descending
sorted_reverse(seq, idf) ==
    LET n == Len(seq)
        before(a, b) ==
            \/ sorted_key(seq[a], idf) > sorted_key(seq[b], idf)
            \/ sorted_key(seq[a], idf) = sorted_key(seq[b], idf) /\ a < b
        place(a) == 1 + Cardinality({b \in 1..n : before(b, a)})
    IN  [p \in 1..n |-> seq[CHOOSE a \in 1..n : place(a) = p]]

\* what the sort of res_unsort raises: the key of a file shorter than idf+1
\* records, or np.array of files of different lengths
SortRaises(seq, idf) ==
    IF \E a \in 1..Len(seq) : seq[a].nrec <= idf THEN "IndexError"
    ELSE IF \E a, b \in 1..Len(seq) : seq[a].nrec # seq[b].nrec THEN "ValueError"
    ELSE "none"

Crash(exc) ==
    /\ pc' = "crashed" /\ raised' = exc
    /\ UNCHANGED <<obs_cent_list, design, seen, res_unsort, idfpos, res, step,
                   entry, lastcall, visited, results, f_obs_main, bvars>>

\* res = np.array(sorted(res_unsort, key=..., reverse=True))
Sort ==
    /\ pc = "sort"
    /\ LET idf == IdfLoop[idfpos] IN
       IF SortRaises(res_unsort, idf) # "none"
       THEN Crash(SortRaises(res_unsort, idf))
       ELSE /\ res' = sorted_reverse(res_unsort, idf)
            /\ pc' = "agg" /\ step' = 1
            /\ UNCHANGED <<obs_cent_list, design, seen, res_unsort, idfpos, entry,
                           lastcall, visited, results, f_obs_main, raised, bvars>>

DNdyName(s) ==
    CASE s = "pion" -> "dN_dy_pion" [] s = "kaon" -> "dN_dy_kaon"
      [] s = "proton" -> "dN_dy_proton" [] s = "Lambda" -> "dN_dy_Lambda"
      [] s = "Omega" -> "dN_dy_Omega" [] s = "Xi" -> "dN_dy_Xi"

\* info = calculate_...(res, 'ALICE', cenb, idf) of one request
Info(rq, ds, cenb, idf) ==
    CASE rq.kind = "dNdeta" -> calculate_dNdeta(ds, cenb, idf)
      [] rq.kind = "dETdeta" -> calculate_dETdeta(ds, cenb, idf)
      [] rq.kind = "dNdy" ->
            LET r == calculate_dNdy(ds, cenb, idf)
            IN  [raise |-> r.raise, obs |-> r.obs[rq.s], err |-> r.err[rq.s]]
      [] rq.kind = "mean_pT" ->
            LET r == calculate_mean_pT(ds, cenb, idf)
            IN  [raise |-> r.raise, obs |-> r.obs[rq.s], err |-> r.err[rq.s]]
      [] rq.kind = "pT_fluct" -> calculate_mean_pT_fluct(ds, cenb, idf)
      [] rq.kind = "vn" ->
            LET r == calculate_vn(ds, cenb, idf)
            IN  [raise |-> r.raise, obs |-> r.obs[rq.n - 1], err |-> r.err[rq.n - 1]]

\* the observable whose 'err' slot the request's error is assigned to
ErrSlot(rq) == IF rq.kind = "mean_pT" THEN DNdyName(rq.s) ELSE rq.obs

\* entry[system][...]['mean'][:, idf] = info['obs'];  ...['err'][:, idf] = info['err']
Assign(e, rq, idf, info) ==
    LET e1 == [e EXCEPT ![rq.obs].mean[idf] = info.obs]
    IN  [e1 EXCEPT ![ErrSlot(rq)].err[idf] = info.err]

\* one request of the loop body: the schedule lookup, the aggregator, the
\* two assignments
Aggregate ==
    /\ pc = "agg"
    /\ LET rq  == Requests[step]
           idf == IdfLoop[idfpos]
       IN  IF rq.obs \notin DOMAIN obs_cent_list
           THEN Crash("KeyError")
           ELSE LET info == Info(rq, res, obs_cent_list[rq.obs], idf)
                    last == step = Len(Requests)
                IN  IF info.raise # "none"
                    THEN Crash(info.raise)
                    ELSE /\ entry' = Assign(entry, rq, idf, info)
                         /\ lastcall' = [ds |-> res, idf |-> idf]
                         /\ step' = IF last THEN 1 ELSE step + 1
                         /\ visited' = IF last THEN visited \cup {idf} ELSE visited
                         /\ pc' = IF ~last THEN "agg"
                                  ELSE IF idfpos < Len(IdfLoop) THEN "sort"
                                  ELSE "return"
                         /\ idfpos' = IF last /\ idfpos < Len(IdfLoop)
                                      THEN idfpos + 1 ELSE idfpos
                         /\ UNCHANGED <<obs_cent_list, design, seen, res_unsort,
                                        res, results, f_obs_main, raised, bvars>>

\* the record appended twice
ReturnTwice ==
    /\ pc = "return"
    /\ results' = results \o <<entry, entry>>
    /\ design' = design + 1
    /\ pc' = "main"
    /\ UNCHANGED <<obs_cent_list, seen, res_unsort, idfpos, res, step, entry,
                   lastcall, visited, f_obs_main, raised, bvars>>

\* results.append(load_and_compute_single_design(filename, system)[0])
Return ==
    /\ pc = "return"
    /\ results' = Append(results, entry)
    /\ design' = design + 1
    /\ pc' = "main"
    /\ UNCHANGED <<obs_cent_list, seen, res_unsort, idfpos, res, step, entry,
                   lastcall, visited, f_obs_main, raised, bvars>>

\* results = np.array(results); results.tofile(f_obs_main)
ToFile ==
    /\ pc = "main" /\ design = NumDesign
    /\ f_obs_main' = results
    /\ pc' = "done"
    /\ UNCHANGED <<obs_cent_list, design, seen, res_unsort, idfpos, res, step,
                   entry, lastcall, visited, results, raised, bvars>>

Next == StartDesign \/ LoadFile \/ Sort \/ Aggregate \/ Return \/ ToFile

Spec == Init /\ [][Next]_vars

(***************************************************************************)
(* Properties of the design-point driver (specification Spec).             *)
(***************************************************************************)
\* the request of Requests[k] has been aggregated for variant idf of the
\* design point in hand
Written(k, idf) ==
    \/ idf \in visited
    \/ pc \in {"agg", "crashed"} /\ step > k /\ idf = IdfLoop[idfpos]

\* the dNch_deta of the loaded events for variant idf, in file order
DNchValues(idf) ==
    [i \in 1..Len(res_unsort) |-> dNch_deta(res_unsort[i].ev, idf)]

\* the value at rank r (from 0) of vals in descending order
RankValue(vals, r) ==
    CHOOSE v \in {vals[i] : i \in DOMAIN vals} :
        /\ Cardinality({i \in DOMAIN vals : vals[i] > v}) <= r
        /\ r < Cardinality({i \in DOMAIN vals : vals[i] >= v})

\* the arithmetic mean of the values at ranks [nl, nh) of vals in descending
\* order, as far as the ranks exist; of no value it is NaN
RankMean(vals, nl, nh) ==
    LET top == Min(nh, Len(vals))
    IN  IF nl >= top THEN NaN
        ELSE Num(Sum([k \in 1..(top - nl) |-> RankValue(vals, nl + k - 1)]),
                 top - nl)

\* C1 (as amended): the dNch_deta mean written for bin (low, high) and a
\* processed variant idf is the arithmetic mean of the dNch_deta values (of
\* that idf) at ranks [nl, max(nh, nl+1)) of the ensemble in descending order
\* of dNch_deta, where (nl, nh) is the index range the aggregator computes
\* for the bin: a bin whose range collapses is the value of the one event at
\* rank nl.
C1_WidenedRankMean ==
    \A idf \in Idfs :
        ("dNch_deta" \in DOMAIN obs_cent_list /\ Written(1, idf)) =>
            LET cen == obs_cent_list["dNch_deta"]
                Ne  == Len(res_unsort)
            IN  \A b \in 1..Len(cen) :
                    LET nl == CenIndex(cen[b][1], Ne)
                        nh == CenIndex(cen[b][2], Ne)
                    IN  entry["dNch_deta"].mean[idf][b]
                          = RankMean(DNchValues(idf), nl, Max(nh, nl + 1))

\* two events loaded in ascending order of dNch_deta, binned in two halves
C1_Witness ==
    /\ "dNch_deta" \in DOMAIN obs_cent_list /\ Written(1, 0)
    /\ obs_cent_list["dNch_deta"] = HalfSchedule
    /\ Len(res_unsort) = 2
    /\ DNchValues(0) = <<1, 3>>
    /\ entry["dNch_deta"].mean[0] = <<Num(3, 1), Num(1, 1)>>

\* every loaded file holds the record of each model variant
WholeEnsemble ==
    \A i \in 1..Len(res_unsort) : res_unsort[i].nrec = number_of_models_per_run

\* C1 as stated: the mean is that of ranks [floor(low*Ne/100),
\* floor(high*Ne/100)), whatever the width of the range
C1_FloorRankMean ==
    \A idf \in Idfs :
        ("dNch_deta" \in DOMAIN obs_cent_list /\ Written(1, idf)
            /\ WholeEnsemble) =>
            LET cen == obs_cent_list["dNch_deta"]
                Ne  == Len(res_unsort)
            IN  \A b \in 1..Len(cen) :
                    entry["dNch_deta"].mean[idf][b]
                      = RankMean(DNchValues(idf), (cen[b][1] * Ne) \div 100,
                                 (cen[b][2] * Ne) \div 100)

\* ds is in descending order of the dNch_deta of variant idf
SortedDescending(ds, idf) ==
    \A i \in 1..(Len(ds) - 1) :
        dNch_deta(ds[i].ev, idf) >= dNch_deta(ds[i + 1].ev, idf)

\* a and b hold the same files, each as often
SameFiles(a, b) ==
    /\ Len(a) = Len(b)
    /\ \A x \in {a[i] : i \in 1..Len(a)} \cup {b[i] : i \in 1..Len(b)} :
          Cardinality({i \in 1..Len(a) : a[i] = x})
            = Cardinality({i \in 1..Len(b) : b[i] = x})

\* the phases as the states show them
PhaseOrderState ==
    /\ pc \in {"sort", "agg", "return"} => Len(seen) = NumEvents
    /\ pc = "agg" =>
          /\ SortedDescending(res, IdfLoop[idfpos])
          /\ SameFiles(res, res_unsort)
    /\ lastcall # NoCall =>
          /\ SortedDescending(lastcall.ds, lastcall.idf)
          /\ SameFiles(lastcall.ds, res_unsort)

\* the phases as the steps show them
PhaseOrderStep ==
    /\ seen' # seen => pc \in {"main", "load"}
    /\ res' # res => pc \in {"main", "sort"}
    /\ (lastcall' # lastcall /\ pc # "main") =>
          /\ pc = "agg"
          /\ lastcall' = [ds |-> res, idf |-> IdfLoop[idfpos]]
    /\ entry' # entry => pc \in {"main", "agg"}
    /\ results' # results =>
          /\ pc = "return"
          /\ visited = {IdfLoop[p] : p \in 1..Len(IdfLoop)}
          /\ results' = Append(results, entry)

\* C4: per design point every event file is read before the first sort; for
\* each processed idf the ensemble is sorted descending by the dNch_deta of
\* that idf before an aggregator runs for it, and every aggregator for idf
\* is given that sorted ensemble; the record is appended to the output
\* collection only after the last processed idf has been aggregated.
C4_PhaseOrder == [](PhaseOrderState) /\ [][PhaseOrderStep]_vars

\* a batch whose last design point needed its two events reordered
C4_Witness ==
    /\ pc = "done" /\ Len(results) = NumDesign
    /\ Len(res_unsort) = NumEvents /\ res # res_unsort
    /\ lastcall = [ds |-> res, idf |-> IdfLoop[Len(IdfLoop)]]

\* C5: a design point's record is returned only when every model variant
\* 0 .. number_of_models_per_run-1 has been sorted and aggregated.
C5_AllVariantsVisited == pc = "return" => visited = Idfs

\* C6: once the mean-pT request of species s has been aggregated for idf,
\* the 'err' slot of mean_pT_s holds the error calculate_mean_pT returned
\* for s.
C6_MeanPTErrSlot ==
    \A idf \in Idfs : \A k \in 1..Len(Requests) :
        (Requests[k].kind = "mean_pT" /\ Written(k, idf) /\ WholeEnsemble) =>
            entry[Requests[k].obs].err[idf]
              = calculate_mean_pT(sorted_reverse(res_unsort, idf),
                                  obs_cent_list[Requests[k].obs],
                                  idf).err[Requests[k].s]

\* C7: when the batch has ended, no design point other than a failing one
\* is left unprocessed, and the records of the others are in the output.
C7_FailureIsolated ==
    pc \in {"done", "crashed"} =>
        /\ design >= NumDesign - 1
        /\ Len(f_obs_main) = design

\* C8: a design point none of whose event files was loaded does not raise
\* (every requested observable having a schedule).
C8_EmptyEnsembleRecord ==
    (DOMAIN obs_cent_list = ObsNames /\ Len(seen) = NumEvents
        /\ res_unsort = <<>>) => pc # "crashed"

\* C9: a requested observable without a schedule is skipped: looking up
\* its schedule raises nothing, and the run goes on to the other observables.
C9_MissingScheduleSkipped == raised # "KeyError"

\* the files of seen that are readable and hold a whole event
WholeFiles ==
    LET keep(f) == f.st = "ok" /\ f.nrec = number_of_models_per_run
        kept == SelectSeq(seen, keep)
    IN  [i \in 1..Len(kept) |-> [ev |-> kept[i].ev, nrec |-> kept[i].nrec]]

\* C10: after LOAD the ensemble holds exactly the records of the files that
\* are neither missing, empty, truncated nor unreadable, in file order.
C10_LoadSkipsBadFiles == pc = "sort" => res_unsort = WholeFiles

\* the index range of bin b of schedule cen, for an ensemble of Ne events
BinRange(cen, b, Ne) == <<CenIndex(cen[b][1], Ne), CenIndex(cen[b][2], Ne)>>

\* the request in hand is an aggregator other than calculate_dNdeta, its
\* observable has a schedule, and the ensemble has events
OtherAggregatorInHand ==
    /\ step \in 1..Len(Requests)
    /\ Requests[step].kind # "dNdeta"
    /\ Requests[step].obs \in DOMAIN obs_cent_list
    /\ res # <<>>

\* C11: an aggregator other than calculate_dNdeta, given a bin whose index
\* range is empty (high_idx <= low_idx), does not raise.
C11_EmptyBinNoRaise ==
    (pc = "crashed" /\ OtherAggregatorInHand /\ WholeEnsemble
        /\ raised \notin {"KeyError", "IndexError", "ValueError"}) =>
        LET cen == obs_cent_list[Requests[step].obs]
        IN  \A b \in 1..Len(cen) :
                BinRange(cen, b, Len(res))[2] > BinRange(cen, b, Len(res))[1]

\* every event of the ensemble has sum_pT = 0
NoTransverseMomentum ==
    \A i \in 1..Len(res) : \A idf \in Idfs :
        pT_fluct_chg(res[i].ev, idf).sum_pT = 0

\* C12: calculate_mean_pT_fluct, given bins whose events have total sum_pT
\* zero, raises no division by zero (and reports (0, 0)).
C12_ZeroSumPT ==
    (OtherAggregatorInHand /\ WholeEnsemble /\ NoTransverseMomentum
        /\ Requests[step].kind = "pT_fluct"
        /\ obs_cent_list[Requests[step].obs] = FullSchedule) =>
        pc # "crashed"

\* the total pair weight, the sum of M(M-1), of the events at ranks [nl, nh)
\* of the ensemble in descending order of the dNch_deta of variant idf
PairWeight(idf, nl, nh) ==
    LET ds == Slice(sorted_reverse(res_unsort, idf), nl, nh)
    IN  Sum([i \in 1..Len(ds) |->
                flow(ds[i].ev, idf, 0).N * (flow(ds[i].ev, idf, 0).N - 1)])

\* C13: in calculate_vn, for every bin whose total pair weight (the sum of
\* M(M-1) over its events) is zero, and every harmonic, the v_n and the error
\* returned are exactly (0, 0), and so are those written to the record.
C13_ZeroWeightZero ==
    \A idf \in Idfs : \A k \in 1..Len(Requests) :
        (Requests[k].kind = "vn" /\ Written(k, idf)) =>
            LET cen == obs_cent_list[Requests[k].obs]
                Ne  == Len(res_unsort)
                r   == calculate_vn(sorted_reverse(res_unsort, idf), cen, idf)
            IN  \A b \in 1..Len(cen) :
                    PairWeight(idf, BinRange(cen, b, Ne)[1],
                               BinRange(cen, b, Ne)[2]) = 0 =>
                        /\ entry[Requests[k].obs].mean[idf][b] = Zero
                        /\ entry[Requests[k].obs].err[idf][b] = Zero
                        /\ \A n \in 0..(Nharmonic - 1) :
                              r.obs[n][b] = Zero /\ r.err[n][b] = Zero

\* v22 written for an ensemble of one event with a single particle in the
\* flow window
C13_Witness ==
    /\ "v22" \in DOMAIN obs_cent_list /\ obs_cent_list["v22"] = FullSchedule
    /\ \E k \in 1..Len(Requests) : Requests[k].obs = "v22" /\ Written(k, 0)
    /\ Len(res_unsort) = 1 /\ res_unsort[1].ev = "c"
    /\ flow("c", 0, 2).N = 1
    /\ entry["v22"].mean[0] = <<Zero>> /\ entry["v22"].err[0] = <<Zero>>

\* the output collection and the output file as the states show them
OutputState ==
    /\ Len(results) = design
    /\ pc = "done" => (f_obs_main = results /\ Len(f_obs_main) = NumDesign)
    /\ pc # "done" => f_obs_main = <<>>

\* the output collection and the output file as the steps show them
OutputStep ==
    /\ results' # results =>
          /\ pc = "return" /\ step = 1 /\ idfpos = Len(IdfLoop)
          /\ Len(results) = design
          /\ results' = Append(results, entry)
    /\ \A i \in 1..Len(results) :
          Len(results') >= i /\ results'[i] = results[i]
    /\ f_obs_main' # f_obs_main =>
          /\ f_obs_main = <<>> /\ design = NumDesign
          /\ f_obs_main' = results

\* C14: the output collection holds one record per design point processed,
\* the record of design point i at position i; a record is appended once,
\* when the aggregation of its design point has ended, and is not modified
\* afterwards; the collection is written to the output file once, when it
\* holds the record of every design point.
C14_OutputOrder == [](OutputState) /\ [][OutputStep]_vars

\* a batch written with the records of its design points, which differ
C14_Witness ==
    /\ pc = "done" /\ Len(f_obs_main) = NumDesign /\ NumDesign >= 2
    /\ f_obs_main[1] # f_obs_main[NumDesign]

\* C15: the aggregation step of an observable for model index idf writes
\* only the 'mean' and 'err' slots of that observable at column idf: every
\* other observable and every other column is left as it was.
C15_FrameEffect ==
    [][(pc = "agg" /\ WholeEnsemble) =>
          \A o \in DOMAIN entry : \A idf \in Idfs :
              (o # Requests[step].obs \/ idf # IdfLoop[idfpos]) =>
                  /\ entry'[o].mean[idf] = entry[o].mean[idf]
                  /\ entry'[o].err[idf] = entry[o].err[idf]]_vars

(***************************************************************************)
(* The binner on its own: the index range of one bin of an ensemble of Ne  *)
(* events, as every aggregator computes it, then the slice as              *)
(* calculate_dNdeta takes it (widened) or as the others do.                *)
(***************************************************************************)
BinMaxNe == 50
BinExampleNe == 1000
PercentMax == 100

InitBin ==
    /\ obs_cent_list = [o \in ObsNames |-> << <<0, 100>> >>]
    /\ pc = "idle" /\ design = 0
    /\ seen = <<>> /\ res_unsort = <<>> /\ idfpos = 1 /\ res = <<>> /\ step = 1
    /\ entry = bayes_zeros /\ lastcall = NoCall /\ visited = {}
    /\ results = <<>> /\ f_obs_main = <<>> /\ raised = "none"
    /\ bpc = "start"
    /\ bNe \in (0..BinMaxNe) \cup {BinExampleNe}
    /\ bcen \in {c \in (0..PercentMax) \X (0..PercentMax) : c[1] <= c[2]}
    /\ bindex = <<0, 0>> /\ bwide = <<0, 0>> /\ bcount = 0

\* index = (cen/100.*Ne).astype(int)
BinIndex ==
    /\ bpc = "start"
    /\ bindex' = index(<<bcen>>, bNe)[1]
    /\ bpc' = "indexed"
    /\ UNCHANGED <<bNe, bcen, bwide, bcount, dvars>>

SliceLen(Ne, nl, nh) == Max(0, Min(nh, Ne) - Min(nl, Ne))

\* calculate_dNdeta: nh = np.max([nh, nl+1]); ...[nl:nh, idf]
BinSliceDNdeta ==
    /\ bpc = "indexed"
    /\ bwide' = <<bindex[1], Widen(bindex[1], bindex[2])>>
    /\ bcount' = SliceLen(bNe, bindex[1], Widen(bindex[1], bindex[2]))
    /\ bpc' = "dNdeta"
    /\ UNCHANGED <<bNe, bcen, bindex, dvars>>

\* the other aggregators: ...[nl:nh, idf]
BinSliceOther ==
    /\ bpc = "indexed"
    /\ bwide' = bindex
    /\ bcount' = SliceLen(bNe, bindex[1], bindex[2])
    /\ bpc' = "other"
    /\ UNCHANGED <<bNe, bcen, bindex, dvars>>

NextBin == BinIndex \/ BinSliceDNdeta \/ BinSliceOther

SpecBin == InitBin /\ [][NextBin]_vars

(***************************************************************************)
(* Properties of the binner (specification SpecBin).                       *)
(***************************************************************************)
\* C2: the index range of bin (low, high) of an ensemble of Ne events is
\* (floor(low/100*Ne), floor(high/100*Ne)).
C2_FloorIndex ==
    bpc # "start" =>
        bindex = <<(bcen[1] * bNe) \div 100, (bcen[2] * bNe) \div 100>>

\* C3 (as amended): in calculate_dNdeta a range that collapses
\* (high_idx <= low_idx) is widened to (low_idx, low_idx+1), and the bin is
\* then reduced over exactly one event when low_idx is below the ensemble
\* size, over none otherwise; a range with high_idx > low_idx is left as
\* computed.
C3_CollapsedWidened ==
    bpc = "dNdeta" =>
        IF bindex[2] <= bindex[1]
        THEN /\ bwide = <<bindex[1], bindex[1] + 1>>
             /\ bcount = IF bindex[1] < bNe THEN 1 ELSE 0
        ELSE bwide = bindex

\* Ne = 5, bin (0, 1): (0, 0) widened to (0, 1)
C3_Witness ==
    /\ bpc = "dNdeta" /\ bNe = 5 /\ bcen = <<0, 1>>
    /\ bindex = <<0, 0>> /\ bwide = <<0, 1>> /\ bcount = 1

\* C3 as stated: a collapsed range is widened so that the bin is reduced
\* over exactly one event, whatever the ensemble size
C3_CollapsedOneEvent ==
    bpc = "dNdeta" =>
        IF bindex[2] <= bindex[1]
        THEN bwide = <<bindex[1], bindex[1] + 1>> /\ bcount = 1
        ELSE bwide = bindex
====
